---- MODULE Spec2Model ----
(***************************************************************************)
(* State-machine model of pdf-reader-mcp: the session registry (pdfs,      *)
(* pdf_paths, pdf_images) and the handlers of the two server variants,     *)
(* server_pymupdf.py ("pymupdf") and server_old.py ("old").                *)
(*                                                                         *)
(* Strings are TLA+ strings; Python dicts are functions whose domain is    *)
(* the set of keys present.  The PDF library, the file system and the      *)
(* transport are the environment: the documents on disk are fixed by the   *)
(* definitions FileKind, PageCount, PageText, PageImages and Metadata, and *)
(* the outcome of sending a notification is chosen nondeterministically.   *)
(***************************************************************************)
EXTENDS Integers, Sequences, FiniteSets, TLC

(* ----------------------------- bounds ---------------------------------- *)

\* Page count of the largest document on disk.
MaxPages == 3
\* Number of documents fitz.open may hand out in one run.
MaxHandles == 2
\* Page arguments range over -ArgSlack .. MaxPages + ArgSlack.
ArgSlack == 1
\* Number of handlers parked at their await while another handler runs.
MaxSuspended == 1

(* ------------------------- program constants --------------------------- *)

\* pdf_id is the first IdChars characters of the base64 text of the path.
IdChars == 12

(* --------------------------- small helpers ----------------------------- *)

Min(a, b) == IF a < b THEN a ELSE b
Max(a, b) == IF a > b THEN a ELSE b

\* The dict with no keys.
EmptyDict == [k \in {} |-> ""]

\* dict.get(key, default)
Get(d, k, default) == IF k \in DOMAIN d THEN d[k] ELSE default

\* d[k] = v
DictSet(d, k, v) == [x \in DOMAIN d \cup {k} |-> IF x = k THEN v ELSE d[x]]

\* del d[k]
DictDel(d, k) == [x \in DOMAIN d \ {k} |-> d[x]]

\* s[i] as a one-character string (1-based).
CharAt(s, i) == SubSeq(s, i, i)

\* Position of character c in string s, 0 when absent.
IndexOf(s, c) ==
  IF \E i \in 1..Len(s) : CharAt(s, i) = c
  THEN CHOOSE i \in 1..Len(s) : CharAt(s, i) = c
  ELSE 0

\* s.startswith(p)
StartsWith(s, p) == Len(s) >= Len(p) /\ SubSeq(s, 1, Len(p)) = p

\* range(a, b + 1) as a sequence
RangeSeq(a, b) == IF b < a THEN <<>> ELSE [i \in 1..(b - a + 1) |-> a + i - 1]

(* ------------------- base64.urlsafe_b64encode -------------------------- *)

\* The URL-safe alphabet (urlsafe_b64encode) and the standard one (b64encode).
UrlsafeAlphabet == "ABCDEFGHIJKLMNOPQRSTUVWXYZabcdefghijklmnopqrstuvwxyz0123456789-_"
StandardAlphabet == "ABCDEFGHIJKLMNOPQRSTUVWXYZabcdefghijklmnopqrstuvwxyz0123456789+/"

AsciiPunct == "-./0123456789"
AsciiUpper == "ABCDEFGHIJKLMNOPQRSTUVWXYZ"
AsciiLower == "abcdefghijklmnopqrstuvwxyz"

\* str.encode(): the byte value of a path character.
Ord(c) ==
  IF IndexOf(AsciiPunct, c) > 0 THEN 44 + IndexOf(AsciiPunct, c)
  ELSE IF IndexOf(AsciiUpper, c) > 0 THEN 64 + IndexOf(AsciiUpper, c)
  ELSE IF IndexOf(AsciiLower, c) > 0 THEN 96 + IndexOf(AsciiLower, c)
  ELSE IF c = "_" THEN 95
  ELSE 126

Sextet(alphabet, n) == CharAt(alphabet, n + 1)

RECURSIVE B64From(_, _, _)
\* Encoding of the bytes of s from position i on, three bytes to four
\* characters, padded with "=".
B64From(alphabet, s, i) ==
  IF i > Len(s) THEN ""
  ELSE LET b1 == Ord(CharAt(s, i))
           rest == Len(s) - i
           S(n) == Sextet(alphabet, n)
       IN IF rest = 0
          THEN S(b1 \div 4) \o S((b1 % 4) * 16) \o "=="
          ELSE LET b2 == Ord(CharAt(s, i + 1))
               IN IF rest = 1
                  THEN S(b1 \div 4) \o S((b1 % 4) * 16 + b2 \div 16)
                         \o S((b2 % 16) * 4) \o "="
                  ELSE LET b3 == Ord(CharAt(s, i + 2))
                       IN S(b1 \div 4)
                            \o S((b1 % 4) * 16 + b2 \div 16)
                            \o S((b2 % 16) * 4 + b3 \div 64)
                            \o S(b3 % 64)
                            \o B64From(alphabet, s, i + 3)

UrlsafeB64Encode(s) == B64From(UrlsafeAlphabet, s, 1)

\* B64Encode with the URL-safe alphabet.
B64EncodeUrlsafeAlphabet(s) == B64From(UrlsafeAlphabet, s, 1)

\* base64.b64encode
B64Encode(s) == B64From(StandardAlphabet, s, 1)

\* base64.urlsafe_b64encode(os.path.abspath(path).encode()).decode()[:12]
PdfId(path) ==
  LET enc == UrlsafeB64Encode(path)
  IN SubSeq(enc, 1, Min(IdChars, Len(enc)))

(* ------------------------------ paths ---------------------------------- *)

Home == "/tmp"
Cwd == "/tmp/docs"

\* os.path.expanduser
ExpandUser(path) ==
  IF StartsWith(path, "~") THEN Home \o SubSeq(path, 2, Len(path)) ELSE path

\* os.path.abspath, for paths without "." or ".." components
AbsPath(path) ==
  IF StartsWith(path, "/") THEN path ELSE Cwd \o "/" \o path

RECURSIVE LastSlash(_, _)
LastSlash(s, i) ==
  IF i = 0 THEN 0
  ELSE IF CharAt(s, i) = "/" THEN i ELSE LastSlash(s, i - 1)

\* os.path.basename / Path(p).name
Basename(path) == SubSeq(path, LastSlash(path, Len(path)) + 1, Len(path))

(* ------------------- the documents on disk (environment) --------------- *)

PathA == "/tmp/docs/a.pdf"
PathB == "/tmp/docs/b.pdf"
PathC == "/tmp/c.pdf"

\* What the file system and the PDF library say about a normalized path.
FileKind(path) ==
  CASE path \in {PathA, PathB, PathC} -> "pdf"
    [] path = "/tmp/docs" -> "directory"
    [] path = "/tmp/secret.pdf" -> "unreadable"
    [] path = "/tmp/notes.txt" -> "garbage"
    [] OTHER -> "missing"

\* doc.page_count
PageCount(path) ==
  CASE path = PathA -> MaxPages
    [] path = PathB -> 1
    [] OTHER -> 0

\* page.get_text() / page.extract_text()
PageText(path, i) ==
  CASE path = PathA /\ i = 0 -> " a0\n\nx "
    [] path = PathA /\ i % 2 = 1 -> ""
    [] path = PathA -> "a" \o ToString(i)
    [] OTHER -> "b\n"

\* An embedded image: the channel count n and the alpha flag of its pixmap,
\* and whether fitz.Pixmap(doc, xref), fitz.Pixmap(fitz.csRGB, pix) and
\* pix_rgb.save(...) work on it (each raises when it does not).
Img(n, alpha, decodes, converts, saves) ==
  [n |-> n, alpha |-> alpha, decodes |-> decodes, converts |-> converts,
   saves |-> saves]

\* page.get_images(), in the page's image reference order
PageImages(path, i) ==
  CASE path = PathA /\ i = 0 ->
         << Img(3, 0, TRUE, FALSE, TRUE),
            Img(3, 0, FALSE, TRUE, TRUE),
            Img(5, 1, TRUE, FALSE, TRUE),
            Img(4, 0, TRUE, TRUE, TRUE),
            Img(1, 0, TRUE, TRUE, FALSE),
            Img(2, 1, TRUE, TRUE, TRUE) >>
    [] path = PathA /\ i = 2 -> << Img(4, 0, TRUE, TRUE, FALSE) >>
    [] path = PathB /\ i = 0 -> << Img(4, 0, FALSE, TRUE, TRUE) >>
    [] OTHER -> << >>

\* doc.metadata, as key/value pairs
Metadata(path) ==
  CASE path = PathA -> << <<"title", "A">>, <<"author", "">> >>
    [] OTHER -> << >>

\* file.read(): the bytes of the file at path
FileContent(path) ==
  CASE path = PathA -> "PDF-1.4a~~"
    [] path = PathB -> "PDF-1.7b"
    [] OTHER -> "PDF1.0"

\* Paths a caller passes to open-pdf.
OpenInputs ==
  { PathA, "b.pdf", "~/c.pdf", "/tmp/missing.pdf", "/tmp/docs",
    "/tmp/secret.pdf", "/tmp/notes.txt", "" }

(* --------------------------- text helpers ------------------------------ *)

RECURSIVE ReplaceFrom(_, _)
\* str.replace('\n\n', '\n') from position i on: leftmost, non-overlapping.
ReplaceFrom(s, i) ==
  IF i > Len(s) THEN ""
  ELSE IF i < Len(s) /\ SubSeq(s, i, i + 1) = "\n\n"
       THEN "\n" \o ReplaceFrom(s, i + 2)
       ELSE CharAt(s, i) \o ReplaceFrom(s, i + 1)

IsSpace(c) == c \in {" ", "\n", "\t", "\r"}

\* str.strip()
Strip(s) ==
  LET keep == {i \in 1..Len(s) : ~IsSpace(CharAt(s, i))}
  IN IF keep = {} THEN ""
     ELSE SubSeq(s, CHOOSE i \in keep : \A j \in keep : i <= j,
                    CHOOSE i \in keep : \A j \in keep : i >= j)

\* page_text.replace('\n\n', '\n').strip()
Tidy(s) == Strip(ReplaceFrom(s, 1))

RECURSIVE JoinFrom(_, _, _)
JoinFrom(parts, sep, i) ==
  IF i > Len(parts) THEN ""
  ELSE IF i = Len(parts) THEN parts[i]
  ELSE parts[i] \o sep \o JoinFrom(parts, sep, i + 1)

\* sep.join(parts)
Join(parts, sep) == JoinFrom(parts, sep, 1)

\* f"--- PAGE {page_num + 1}/{total_pages} ---"
PageMarker(page_num, total) ==
  "\n--- PAGE " \o ToString(page_num + 1) \o "/" \o ToString(total) \o " ---\n"

(* ------------------ extract_images_from_page --------------------------- *)

TempDir(pdf_id) == "/tmp/pdf_reader_" \o pdf_id

ImagePath(pdf_id, page_num, img_index) ==
  TempDir(pdf_id) \o "/page_" \o ToString(page_num) \o "_img_"
    \o ToString(img_index) \o ".png"

\* pix.n - pix.alpha < 4 keeps the pixmap, otherwise it is converted to RGB.
NeedsRgbConversion(img) == ~(img.n - img.alpha < 4)

\* The try block of one image runs to image_paths.append: the pixmap is
\* built, converted when it has to be, and saved.
ImageSaved(img) ==
  /\ img.decodes
  /\ NeedsRgbConversion(img) => img.converts
  /\ img.saves

RECURSIVE ExtractLoopAborting(_, _, _, _)
\* ExtractLoop with the try block around the whole loop: the first image
\* that raises ends it.
ExtractLoopAborting(image_list, page_num, pdf_id, k) ==
  IF k > Len(image_list) \/ ~ImageSaved(image_list[k]) THEN << >>
  ELSE << ImagePath(pdf_id, page_num, k - 1) >>
         \o ExtractLoopAborting(image_list, page_num, pdf_id, k + 1)

RECURSIVE ExtractLoop(_, _, _, _)
\* The for loop over image_list: an image whose try block raises is skipped.
ExtractLoop(image_list, page_num, pdf_id, k) ==
  IF k > Len(image_list) THEN << >>
  ELSE (IF ImageSaved(image_list[k])
        THEN << ImagePath(pdf_id, page_num, k - 1) >>
        ELSE << >>)
       \o ExtractLoop(image_list, page_num, pdf_id, k + 1)

\* extract_images_from_page(doc, page_num, pdf_id) for the document at path
ExtractImagesFromPage(path, page_num, pdf_id) ==
  LET image_list == PageImages(path, page_num)
  IN IF image_list = << >> THEN << >>
     ELSE ExtractLoop(image_list, page_num, pdf_id, 1)

\* MakesTempDir with temp_dir.mkdir ahead of the empty-list return.
MakesTempDirAlways(image_list) == TRUE

\* "if not image_list: return image_paths" comes before
\* temp_dir.mkdir(exist_ok=True).
MakesTempDir(image_list) == image_list # << >>

RECURSIVE TempDirsMade(_, _, _, _)
\* The mkdir calls of extract_images_from_page over the pages idx[k..].
TempDirsMade(path, idx, pdf_id, k) ==
  IF k > Len(idx) THEN << >>
  ELSE (IF MakesTempDir(PageImages(path, idx[k]))
        THEN << TempDir(pdf_id) >>
        ELSE << >>)
       \o TempDirsMade(path, idx, pdf_id, k + 1)

\* "\n".join([f"- {Path(img).name}" for img in images])
ImageNames(images) ==
  Join([k \in 1..Len(images) |-> "- " \o Basename(images[k])], "\n")

(* ------------------------------- state --------------------------------- *)

VARIABLES
  variant,     \* which server module runs: "pymupdf" or "old"
  pdfs,        \* pdfs: pdf_id -> document handle
  pdf_paths,   \* pdf_paths: pdf_id -> path
  pdf_images,  \* pdf_images: pdf_id -> {page -> image paths} (pymupdf only)
  docs,        \* documents handed out by fitz.open, by handle: path, closed
  pc,          \* position of the running handler: idle, or at its await
  suspended,   \* handlers parked at their await while other handlers run
  result,      \* outcome of the completed call, until it is sent back
  closedIds,   \* history: ids closed successfully and not stored again since
  returnedIds, \* history: ids returned by open, no close called on them since
  before       \* history: the registry when the current call started

vars == << variant, pdfs, pdf_paths, pdf_images, docs, pc, suspended, result,
           closedIds, returnedIds, before >>

Variants == {"pymupdf", "old"}

\* The registry tables and the documents handed out.
RegistryState == << pdfs, pdf_paths, pdf_images, docs >>

NoRegistry == << EmptyDict, EmptyDict, EmptyDict, << >> >>

Idle == [at |-> "idle"]

\* The outcome of a call: ok or the exception raised, the text returned or
\* the exception message, the description of a prompt result, the page
\* indices passed to the PDF library in order, the image files written and
\* returned, the directories made for them, the resource lists that were
\* current when its notifications were sent, and the resources returned by a
\* resource listing.
Outcome(op, args, ok, exc, text, pages, images, notifs) ==
  [op |-> op, args |-> args, ok |-> ok, exc |-> exc, text |-> text,
   desc |-> "", pages |-> pages, images |-> images, mkdirs |-> << >>,
   notifs |-> notifs, listing |-> {}]

\* The outcome r of a call that made the directories dirs.
WithDirs(r, dirs) == [r EXCEPT !.mkdirs = dirs]

\* No call outcome waiting to be sent back.
NoResult == Outcome("none", EmptyDict, TRUE, "", "", << >>, << >>, << >>)

\* return [types.TextContent(type="text", text=...)]
Return(op, args, text, pages, images) ==
  Outcome(op, args, TRUE, "", text, pages, images, << >>)

\* raise ValueError(msg)
Raise(op, args, msg) ==
  Outcome(op, args, FALSE, "ValueError", msg, << >>, << >>, << >>)

\* The PDF library refusing a page index: doc[i] / reader.pages[i] raises.
LibraryRaise(op, args, pages) ==
  Outcome(op, args, FALSE, "IndexError", "page not in document", pages,
          << >>, << >>)

(* ----------------------- the PDF library (environment) ----------------- *)

\* len(doc) of the document behind handle h
DocPages(h) == PageCount(docs[h].path)

\* doc[i]: a page index is served when -n <= i < n on a document that is
\* still open (negative indices count from the end).
LibAccepts(h, i) == ~docs[h].closed /\ -DocPages(h) <= i /\ i < DocPages(h)

\* Position in idx of the first page index the library refuses, 0 if none.
FirstRefused(h, idx) ==
  IF \E k \in 1..Len(idx) : ~LibAccepts(h, idx[k])
  THEN CHOOSE k \in 1..Len(idx) :
         /\ ~LibAccepts(h, idx[k])
         /\ \A j \in 1..(k - 1) : LibAccepts(h, idx[j])
  ELSE 0

\* page.get_text() of page i of handle h (i already accepted)
TextOf(h, i) ==
  LET n == DocPages(h)
  IN PageText(docs[h].path, IF i < 0 THEN i + n ELSE i)

(* --------------------------- shared lookups ---------------------------- *)

\* not pdf_id or pdf_id not in pdfs
InvalidPdfId(args) ==
  \/ "pdf_id" \notin DOMAIN args
  \/ args.pdf_id = ""
  \/ args.pdf_id \notin DOMAIN pdfs

\* "\nDocument Metadata:\n" + "\n".join(f"- {k}: {v}" ...), old variant;
\* skipEmpty is the "if v" filter.
RECURSIVE MetadataLines(_, _, _)
MetadataLines(md, skipEmpty, k) ==
  IF k > Len(md) THEN << >>
  ELSE (IF skipEmpty /\ md[k][2] = "" THEN << >>
        ELSE << "- " \o md[k][1] \o ": " \o md[k][2] >>)
       \o MetadataLines(md, skipEmpty, k + 1)

MetadataText(path, skipEmpty) ==
  IF Metadata(path) = << >> THEN ""
  ELSE "\nDocument Metadata:\n"
         \o Join(MetadataLines(Metadata(path), skipEmpty, 1), "\n")

(* ------------------------ read-only tool handlers ---------------------- *)

\* get-pdf-page-count
GetPdfPageCountResult(args) ==
  LET op == "get-pdf-page-count"
  IN IF InvalidPdfId(args) THEN Raise(op, args, "Invalid PDF ID")
     ELSE Return(op, args,
                 "'" \o Basename(pdf_paths[args.pdf_id]) \o "' has "
                   \o ToString(DocPages(pdfs[args.pdf_id])) \o " pages",
                 << >>, << >>)

\* list-pdf-metadata (old variant only)
ListPdfMetadataResult(args) ==
  LET op == "list-pdf-metadata"
  IN IF InvalidPdfId(args) THEN Raise(op, args, "Invalid PDF ID")
     ELSE LET md == Metadata(docs[pdfs[args.pdf_id]].path)
              metadata_text ==
                IF md = << >> THEN "No metadata available"
                ELSE Join([k \in 1..Len(md) |-> md[k][1] \o ": " \o md[k][2]],
                          "\n")
          IN Return(op, args,
                    "Metadata for '" \o Basename(pdf_paths[args.pdf_id])
                      \o "':\n\n" \o metadata_text,
                    << >>, << >>)

\* The message of the page-number check of get-pdf-page-text.
InvalidPageMessage(n) ==
  IF variant = "pymupdf"
  THEN "Invalid page number (0-" \o ToString(n - 1) \o ")"
  ELSE "Invalid page number. PDF has " \o ToString(n) \o " pages (0-"
         \o ToString(n - 1) \o ")"

\* page_number < 0 or page_number >= doc.page_count
PageOutOfRange(page_number, n) == page_number < 0 \/ page_number >= n

\* get-pdf-page-text
GetPdfPageTextResult(args) ==
  LET op == "get-pdf-page-text"
  IN IF InvalidPdfId(args) THEN Raise(op, args, "Invalid PDF ID")
     ELSE IF "page_number" \notin DOMAIN args
          THEN Raise(op, args, "Missing page number")
     ELSE LET pdf_id == args.pdf_id
              h == pdfs[pdf_id]
              p == args.page_number
              got == TextOf(h, p)
              page_text ==
                IF got # "" THEN got
                ELSE "No extractable text found on page " \o ToString(p)
              images == ExtractImagesFromPage(docs[h].path, p, pdf_id)
              head == "Text from page " \o ToString(p) \o " of '"
                        \o Basename(pdf_paths[pdf_id]) \o "':\n\n"
          IN IF PageOutOfRange(p, DocPages(h))
             THEN Raise(op, args, InvalidPageMessage(DocPages(h)))
             ELSE IF ~LibAccepts(h, p) THEN LibraryRaise(op, args, << p >>)
             ELSE IF variant = "pymupdf"
                  THEN WithDirs(
                         Return(op, args,
                                head \o page_text \o "\n\nImages on page: "
                                  \o ToString(Len(images)),
                                << p, p >>, images),
                         TempDirsMade(docs[h].path, << p >>, pdf_id, 1))
                  ELSE Return(op, args, head \o page_text, << p >>, << >>)

\* extract-images (pymupdf variant only)
ExtractImagesResult(args) ==
  LET op == "extract-images"
  IN IF InvalidPdfId(args) THEN Raise(op, args, "Invalid PDF ID")
     ELSE IF "page_number" \notin DOMAIN args
          THEN Raise(op, args, "Missing page number")
     ELSE LET pdf_id == args.pdf_id
              h == pdfs[pdf_id]
              p == args.page_number
              images == ExtractImagesFromPage(docs[h].path, p, pdf_id)
          IN IF PageOutOfRange(p, DocPages(h))
             THEN Raise(op, args, "Invalid page number")
             ELSE IF ~LibAccepts(h, p) THEN LibraryRaise(op, args, << p >>)
             ELSE WithDirs(
                    IF images = << >>
                    THEN Return(op, args,
                                "No images found on page " \o ToString(p),
                                << p >>, images)
                    ELSE Return(op, args,
                                "Extracted " \o ToString(Len(images))
                                  \o " image(s) from page " \o ToString(p)
                                  \o ":\n" \o ImageNames(images),
                                << p >>, images),
                    TempDirsMade(docs[h].path, << p >>, pdf_id, 1))

(* ------------------------------ pdf-to-text ---------------------------- *)

\* if start_page < 0 or start_page >= doc.page_count: start_page = 0
ResetStart(start_page, n) ==
  IF start_page < 0 \/ start_page >= n THEN 0 ELSE start_page

\* ResetEnd with the reset value one past the last page.
ResetEndOffByOne(end_page, n) ==
  IF end_page < 0 \/ end_page >= n THEN n ELSE end_page

\* if end_page < 0 or end_page >= doc.page_count: end_page = page_count - 1
ResetEnd(end_page, n) ==
  IF end_page < 0 \/ end_page >= n THEN n - 1 ELSE end_page

\* SwapIfInverted without the swap.
NeverSwap(se) == se

\* if start_page > end_page: start_page, end_page = end_page, start_page
SwapIfInverted(se) == IF se[1] > se[2] THEN << se[2], se[1] >> ELSE se

\* The pair <<start_page, end_page>> the extraction loop of pdf-to-text runs
\* over, for a document of n pages.
EffectiveRange(args, n) ==
  SwapIfInverted(<< ResetStart(Get(args, "start_page", 0), n),
                    ResetEnd(Get(args, "end_page", n - 1), n) >>)

\* The placeholder of a page without text.
NoTextPlaceholder ==
  IF variant = "pymupdf" THEN "[No extractable text]"
  ELSE "[No extractable text on this page]"

RECURSIVE AllText(_, _, _, _)
\* The list all_text built by the loop over idx[k..].
AllText(h, idx, include_page_numbers, k) ==
  IF k > Len(idx) THEN << >>
  ELSE LET page_num == idx[k]
           page_text == TextOf(h, page_num)
           marker == PageMarker(page_num, DocPages(h))
       IN (IF page_text # ""
           THEN IF include_page_numbers
                THEN << marker \o Tidy(page_text) >>
                ELSE << Tidy(page_text) >>
           ELSE IF include_page_numbers
                THEN << marker \o NoTextPlaceholder >>
                ELSE << >>)
          \o AllText(h, idx, include_page_numbers, k + 1)

\* page_range_desc
PageRangeDesc(start_page, end_page, total_pages) ==
  IF start_page = 0 /\ end_page = total_pages - 1
  THEN "all pages (1-" \o ToString(total_pages) \o ")"
  ELSE IF start_page = end_page THEN "page " \o ToString(start_page + 1)
  ELSE "pages " \o ToString(start_page + 1) \o "-" \o ToString(end_page + 1)

\* pdf-to-text
PdfToTextResult(args) ==
  LET op == "pdf-to-text"
  IN IF InvalidPdfId(args) THEN Raise(op, args, "Invalid PDF ID")
     ELSE LET pdf_id == args.pdf_id
              h == pdfs[pdf_id]
              n == DocPages(h)
              include_page_numbers == Get(args, "include_page_numbers", TRUE)
              se == EffectiveRange(args, n)
              idx == RangeSeq(se[1], se[2])
              bad == FirstRefused(h, idx)
              full_text == Join(AllText(h, idx, include_page_numbers, 1), "\n")
              metadata_text ==
                IF variant = "old" THEN MetadataText(docs[h].path, TRUE)
                ELSE ""
          IN IF bad > 0 THEN LibraryRaise(op, args, SubSeq(idx, 1, bad))
             ELSE Return(op, args,
                         "Text extracted from "
                           \o PageRangeDesc(se[1], se[2], n) \o " of '"
                           \o Basename(pdf_paths[pdf_id]) \o "'"
                           \o metadata_text \o "\n\n" \o full_text,
                         idx, << >>)

(* ------------------------------- prompts ------------------------------- *)

\* Integers that page arguments are drawn from.
PageVals == (-ArgSlack)..(MaxPages + ArgSlack)

\* int(s): the decimal strings of PageVals parse, anything else raises.
CanParseInt(s) == \E v \in PageVals : ToString(v) = s
ParseInt(s) == CHOOSE v \in PageVals : ToString(v) = s

IntParseError(s) == "invalid literal for int() with base 10: '" \o s \o "'"

RECURSIVE SplitFrom(_, _, _, _)
\* s.split(sep) for a one-character sep: the field starting at position
\* from, scanned up to position i.
SplitFrom(s, sep, from, i) ==
  IF i > Len(s) THEN << SubSeq(s, from, Len(s)) >>
  ELSE IF CharAt(s, i) = sep
       THEN << SubSeq(s, from, i - 1) >> \o SplitFrom(s, sep, i + 1, i + 1)
       ELSE SplitFrom(s, sep, from, i + 1)

Split(s, sep) == SplitFrom(s, sep, 1, 1)

\* The prompt templates fence the document text with three backquotes; the
\* fence is written ~~~ in this module.
\* return types.GetPromptResult(description=..., messages=[...])
PromptReturn(op, args, desc, text, pages, images) ==
  [Return(op, args, text, pages, images) EXCEPT !.desc = desc]

\* not arguments or "pdf_id" not in arguments
MissingPdfIdArgument(args) == DOMAIN args = {} \/ "pdf_id" \notin DOMAIN args

RECURSIVE TextContent(_, _, _)
\* text_content built by the page loop of a prompt: pages without text add
\* nothing.
TextContent(h, idx, k) ==
  IF k > Len(idx) THEN ""
  ELSE LET page_text == TextOf(h, idx[k])
       IN (IF page_text # ""
           THEN PageMarker(idx[k], DocPages(h)) \o Tidy(page_text) \o "\n"
           ELSE "")
          \o TextContent(h, idx, k + 1)

RECURSIVE AllImages(_, _, _, _)
\* all_images built by the page loop of the extract prompt
AllImages(path, idx, pdf_id, k) ==
  IF k > Len(idx) THEN << >>
  ELSE ExtractImagesFromPage(path, idx[k], pdf_id)
         \o AllImages(path, idx, pdf_id, k + 1)

\* The page loop of a prompt over idx, then the text built by body.
PromptOverPages(op, args, h, idx, desc, text, images) ==
  LET bad == FirstRefused(h, idx)
  IN IF bad > 0 THEN LibraryRaise(op, args, SubSeq(idx, 1, bad))
     ELSE PromptReturn(op, args, desc, text, idx, images)

\* summarize-pdf
SummarizePdfResult(args) ==
  LET op == "summarize-pdf"
      pdf_id == args.pdf_id
      h == pdfs[pdf_id]
      pdf_name == Basename(pdf_paths[pdf_id])
      style == Get(args, "style", "brief")
      detail_prompt == IF style = "detailed" THEN " Give extensive details."
                       ELSE ""
      total_pages == DocPages(h)
      idx == RangeSeq(0, total_pages - 1)
      text_content == TextContent(h, idx, 1)
      pages_str == ToString(total_pages)
  IN PromptOverPages(op, args, h, idx, "Summarize PDF: " \o pdf_name,
       IF variant = "pymupdf"
       THEN "# PDF Analysis Task\n\nProvide a " \o style
              \o " summary of this PDF document titled '" \o pdf_name
              \o "' (" \o pages_str \o " pages).\n\nDocument Content:\n"
              \o text_content
              \o "\n\nPlease provide a clear summary with key points and conclusions."
       ELSE "# PDF Analysis Task\n\n"
              \o "You are an expert document analyst specializing in PDF analysis and summarization. "
              \o "Your task is to provide a clear, accurate, and well-structured "
              \o style \o " summary of this PDF document titled '" \o pdf_name
              \o "' (" \o pages_str \o " pages)." \o detail_prompt
              \o MetadataText(docs[h].path, FALSE)
              \o "\n\nDocument Content:\n" \o text_content \o "\n\n"
              \o "Based on the content above, please provide:\n"
              \o "1. A concise overview of what this document is about\n"
              \o "2. The main points or arguments presented\n"
              \o "3. Any key findings, conclusions, or recommendations\n"
              \o "4. The structure and organization of the document",
       << >>)

\* InvalidPageRange without the "start_page > end_page" test.
InvalidPageRangeNoOrder(start_page, end_page, n) ==
  start_page < 0 \/ end_page >= n

\* start_page < 0 or end_page >= doc.page_count or start_page > end_page
InvalidPageRange(start_page, end_page, n) ==
  start_page < 0 \/ end_page >= n \/ start_page > end_page

\* extract-text-from-pdf with a "page" argument
ExtractPageResult(args) ==
  LET op == "extract-text-from-pdf"
      pdf_id == args.pdf_id
      h == pdfs[pdf_id]
      pdf_name == Basename(pdf_paths[pdf_id])
      n == DocPages(h)
      page_num == ParseInt(args.page)
      shown == ToString(page_num + 1)
      got == TextOf(h, page_num)
      page_text ==
        Tidy(IF got # "" THEN got
             ELSE "No text found on page " \o ToString(page_num))
      images == IF variant = "pymupdf"
                THEN ExtractImagesFromPage(docs[h].path, page_num, pdf_id)
                ELSE << >>
      image_info ==
        IF images # << >>
        THEN "\n\nImages found on this page:\n" \o ImageNames(images)
        ELSE ""
  IN IF ~CanParseInt(args.page) THEN Raise(op, args, IntParseError(args.page))
     ELSE IF PageOutOfRange(page_num, n)
          THEN Raise(op, args, "Invalid page number: " \o ToString(page_num))
     ELSE IF ~LibAccepts(h, page_num)
          THEN LibraryRaise(op, args, << page_num >>)
     ELSE WithDirs(PromptReturn(op, args,
            "Text from page " \o shown \o " of " \o pdf_name,
            IF variant = "pymupdf"
            THEN "# PDF Text Extraction\n\nText from page " \o shown
                   \o " of '" \o pdf_name \o "':\n\n~~~\n" \o page_text
                   \o "\n~~~" \o image_info
            ELSE "# PDF Text Extraction\n\n"
                   \o "Below is the text extracted from page " \o shown
                   \o " (of " \o ToString(n)
                   \o ") of the PDF document titled '" \o pdf_name \o "'."
                   \o MetadataText(docs[h].path, TRUE)
                   \o "\n\n~~~\n" \o page_text \o "\n~~~\n\n"
                   \o "Please work with this text to answer any questions, summarize, or analyze as needed.",
            IF variant = "pymupdf" THEN << page_num, page_num >>
            ELSE << page_num >>,
            images),
            IF variant = "pymupdf"
            THEN TempDirsMade(docs[h].path, << page_num >>, pdf_id, 1)
            ELSE << >>)

\* extract-text-from-pdf without a "page" argument: the page range
ExtractRangeResult(args) ==
  LET op == "extract-text-from-pdf"
      pdf_id == args.pdf_id
      h == pdfs[pdf_id]
      pdf_name == Basename(pdf_paths[pdf_id])
      n == DocPages(h)
      start_str == Get(args, "start_page", "0")
      end_str == Get(args, "end_page", ToString(n - 1))
      start_page == ParseInt(start_str)
      end_page == ParseInt(end_str)
      idx == RangeSeq(start_page, end_page)
      span == ToString(start_page + 1) \o "-" \o ToString(end_page + 1)
      text_content == TextContent(h, idx, 1)
      all_images == IF variant = "pymupdf"
                    THEN AllImages(docs[h].path, idx, pdf_id, 1)
                    ELSE << >>
      image_info ==
        IF all_images # << >>
        THEN "\n\nImages found in this range:\n" \o ImageNames(all_images)
        ELSE ""
  IN IF ~CanParseInt(start_str) THEN Raise(op, args, IntParseError(start_str))
     ELSE IF ~CanParseInt(end_str) THEN Raise(op, args, IntParseError(end_str))
     ELSE IF InvalidPageRange(start_page, end_page, n)
          THEN Raise(op, args,
                     "Invalid page range: " \o ToString(start_page) \o "-"
                       \o ToString(end_page))
     ELSE WithDirs(PromptOverPages(op, args, h, idx,
            "Text from pages " \o span \o " of " \o pdf_name,
            IF variant = "pymupdf"
            THEN "# PDF Text Extraction\n\nText from pages " \o span
                   \o " of '" \o pdf_name \o "':\n\n~~~\n" \o text_content
                   \o "\n~~~" \o image_info
            ELSE "# PDF Text Extraction\n\n"
                   \o "Below is the text extracted from pages " \o span
                   \o " (of " \o ToString(n)
                   \o ") of the PDF document titled '" \o pdf_name \o "'."
                   \o MetadataText(docs[h].path, TRUE)
                   \o "\n\n~~~\n" \o text_content \o "\n~~~\n\n"
                   \o "Please work with this text to answer any questions, summarize, or analyze as needed.",
            all_images),
            IF variant = "pymupdf"
            THEN TempDirsMade(docs[h].path, idx, pdf_id, 1)
            ELSE << >>)


\* The page range parsed by the analyze prompt of the old variant:
\* <<TRUE, start_page, end_page>>, or <<FALSE, 0, 0>> when int() raises.
ParsePageRange(page_range, total_pages) ==
  LET range_parts == Split(page_range, "-")
  IN IF page_range = "" THEN << TRUE, 0, total_pages - 1 >>
     ELSE IF Len(range_parts) = 2
          THEN IF CanParseInt(range_parts[1]) /\ CanParseInt(range_parts[2])
               THEN << TRUE, Max(0, ParseInt(range_parts[1])),
                       Min(total_pages - 1, ParseInt(range_parts[2])) >>
               ELSE << FALSE, 0, 0 >>
     ELSE IF CanParseInt(page_range)
          THEN LET page_num == Min(total_pages - 1,
                                   Max(0, ParseInt(page_range)))
               IN << TRUE, page_num, page_num >>
     ELSE << FALSE, 0, 0 >>

\* analyze-pdf
AnalyzePdfResult(args) ==
  LET op == "analyze-pdf"
      pdf_id == args.pdf_id
      h == pdfs[pdf_id]
      pdf_name == Basename(pdf_paths[pdf_id])
      question == Get(args, "question", "")
      page_range == Get(args, "page_range", "")
      total_pages == DocPages(h)
      parsed == IF variant = "old" THEN ParsePageRange(page_range, total_pages)
                ELSE << TRUE, 0, total_pages - 1 >>
      start_page == parsed[2]
      end_page == parsed[3]
      idx == RangeSeq(start_page, end_page)
      text_content == TextContent(h, idx, 1)
      pages_desc ==
        IF start_page # end_page
        THEN "pages " \o ToString(start_page + 1) \o "-"
               \o ToString(end_page + 1)
        ELSE "page " \o ToString(start_page + 1)
  IN IF question = ""
     THEN Raise(op, args, IF variant = "pymupdf" THEN "Missing question"
                          ELSE "Missing question for PDF analysis")
     ELSE IF ~parsed[1]
          THEN Raise(op, args, "Invalid page range format: " \o page_range)
     ELSE PromptOverPages(op, args, h, idx,
            IF variant = "pymupdf" THEN "Analysis of " \o pdf_name
            ELSE "Analysis of " \o pdf_name \o " (" \o question \o ")",
            IF variant = "pymupdf"
            THEN "# PDF Analysis Request\n\nDocument: " \o pdf_name \o " ("
                   \o ToString(total_pages) \o " pages)\nQuestion: "
                   \o question \o "\n\nContent:\n~~~\n" \o text_content
                   \o "\n~~~\n\nPlease analyze and answer the question."
            ELSE "# PDF Analysis Request\n\n"
                   \o "I need your help analyzing the following PDF document titled '"
                   \o pdf_name \o "' (" \o ToString(total_pages)
                   \o " total pages).\nI'm specifically looking at "
                   \o pages_desc \o "." \o MetadataText(docs[h].path, TRUE)
                   \o "\n\n## Question\n" \o question
                   \o "\n\n## Document Content\n~~~\n" \o text_content
                   \o "\n~~~\n\n"
                   \o "Please analyze the document content carefully and provide a thorough and accurate answer to my question, "
                   \o "citing specific parts of the text where relevant.",
            << >>)

\* handle_get_prompt(name, arguments)
GetPromptResult(name, args) ==
  IF MissingPdfIdArgument(args)
  THEN Raise(name, args, "Missing required PDF ID argument")
  ELSE IF args.pdf_id \notin DOMAIN pdfs
       THEN Raise(name, args, "PDF not found: " \o args.pdf_id)
  ELSE CASE name = "summarize-pdf" -> SummarizePdfResult(args)
         [] name = "extract-text-from-pdf" ->
              IF "page" \in DOMAIN args THEN ExtractPageResult(args)
              ELSE ExtractRangeResult(args)
         [] name = "analyze-pdf" -> AnalyzePdfResult(args)
         [] OTHER -> Raise(name, args, "Unknown prompt: " \o name)

\* handle_call_tool(name, arguments) for the tools that leave the registry
\* alone; open-pdf and close-pdf are the actions OpenPdf and ClosePdf.
CallToolResult(name, args) ==
  IF DOMAIN args = {} THEN Raise(name, args, "Missing arguments")
  ELSE CASE name = "get-pdf-page-count" -> GetPdfPageCountResult(args)
         [] name = "get-pdf-page-text" -> GetPdfPageTextResult(args)
         [] name = "pdf-to-text" -> PdfToTextResult(args)
         [] name = "list-pdf-metadata" /\ variant = "old" ->
              ListPdfMetadataResult(args)
         [] name = "extract-images" /\ variant = "pymupdf" ->
              ExtractImagesResult(args)
         [] OTHER -> Raise(name, args, "Unknown tool: " \o name)

(* ------------------------------ resources ------------------------------ *)

\* handle_list_resources(): one resource per entry of pdf_paths
ListResources ==
  { [uri |-> "pdf://" \o pdf_id,
     name |-> "PDF: " \o Basename(pdf_paths[pdf_id]),
     description |-> "PDF document at " \o pdf_paths[pdf_id],
     mimeType |-> "application/pdf"] : pdf_id \in DOMAIN pdf_paths }

\* The URIs a client sees when it lists the resources.
ResourceUris == { r.uri : r \in ListResources }

\* AnyUrl(s) for "<scheme>://<host>[/...]": the scheme and host attributes
\* of the parsed URI (the host of a non-special scheme keeps its case).
AnyUrl(s) ==
  LET parts == Split(s, "/")
  IN [scheme |-> SubSeq(parts[1], 1, Len(parts[1]) - 1),
      host |-> IF Len(parts) >= 3 THEN parts[3] ELSE ""]

\* ReadResourceResult without the test of uri.scheme.
ReadResourceAnyScheme(uri) ==
  IF uri.host \in DOMAIN pdf_paths
  THEN Return("read-resource", uri,
              B64Encode(FileContent(pdf_paths[uri.host])), << >>, << >>)
  ELSE Raise("read-resource", uri, "PDF not found: " \o uri.host)

\* handle_read_resource(uri), uri given by its scheme and host
ReadResourceResult(uri) ==
  LET op == "read-resource"
  IN IF uri.scheme # "pdf"
     THEN Raise(op, uri, "Unsupported URI scheme: " \o uri.scheme)
     ELSE IF uri.host \in DOMAIN pdf_paths
          THEN Return(op, uri, B64Encode(FileContent(pdf_paths[uri.host])),
                      << >>, << >>)
     ELSE Raise(op, uri, "PDF not found: " \o uri.host)

(* ------------------------------- inputs -------------------------------- *)

\* Session ids of the documents on disk (PathA and PathB share one).
IssuedIds == { PdfId(PathA), PdfId(PathC) }

\* Session ids a caller passes: those, an id never issued, the empty string.
PdfIdInputs == IssuedIds \cup { "nosuchid", "" }

\* ds, and each dict of ds with key k set to a value of vals
WithOptional(ds, k, vals) == ds \cup { DictSet(d, k, v) : d \in ds, v \in vals }

IdArgs == { EmptyDict } \cup { [pdf_id |-> i] : i \in PdfIdInputs }

IssuedIdArgs == { [pdf_id |-> i] : i \in IssuedIds }

OpenArgs == { EmptyDict } \cup { [path |-> p] : p \in OpenInputs }

PageArgs ==
  IdArgs \cup { [page_number |-> 0], [pdf_id |-> "nosuchid", page_number |-> 0] }
    \cup WithOptional(IssuedIdArgs, "page_number", PageVals)

TextArgs ==
  IdArgs
    \cup WithOptional(WithOptional(IssuedIdArgs, "start_page", PageVals),
                      "end_page", PageVals)
    \cup WithOptional(WithOptional(IssuedIdArgs, "start_page", PageVals),
                      "include_page_numbers", { FALSE })

PageStrings == { ToString(v) : v \in PageVals } \cup { "x" }

SummarizeArgs == IdArgs \cup WithOptional(IssuedIdArgs, "style", { "detailed" })

ExtractArgs ==
  IdArgs
    \cup WithOptional(IssuedIdArgs, "page", PageStrings)
    \cup WithOptional(WithOptional(IssuedIdArgs, "start_page", PageStrings),
                      "end_page", PageStrings)

PageRangeStrings ==
  { ToString(a) \o "-" \o ToString(b) : a, b \in 0..(MaxPages + 1) }
    \cup { ToString(v) : v \in (-1)..(MaxPages + 1) } \cup { "", "x", "1-2-3" }

AnalyzeArgs ==
  IdArgs
    \cup { [pdf_id |-> "nosuchid", question |-> "Q?"] }
    \cup WithOptional({ [pdf_id |-> i, question |-> "Q?"] : i \in IssuedIds },
                      "page_range", PageRangeStrings)

\* URIs a client asks to read.
UriStrings ==
  { "pdf://" \o i : i \in PdfIdInputs } \cup { "file://" \o PdfId(PathA) }

UriInputs == { AnyUrl(s) : s \in UriStrings }

(* ------------------------------- actions ------------------------------- *)

Init ==
  /\ variant \in Variants
  /\ pdfs = EmptyDict
  /\ pdf_paths = EmptyDict
  /\ pdf_images = EmptyDict
  /\ docs = << >>
  /\ pc = Idle
  /\ suspended = << >>
  /\ result = NoResult
  /\ closedIds = {}
  /\ returnedIds = {}
  /\ before = NoRegistry

\* The transport delivers one call at a time: a call starts when no handler
\* is running and the outcome of the previous call has been sent back.
Ready == pc = Idle /\ result = NoResult

\* StoreImages without the store.
StoreImagesNever(images, pdf_id) == images

\* pdf_images[pdf_id] = {}, the third store of open-pdf (server_pymupdf.py;
\* server_old.py declares the table and never writes it).
StoreImages(images, pdf_id) ==
  IF variant = "pymupdf" THEN DictSet(images, pdf_id, EmptyDict) ELSE images

\* Completes with a handler that pops the session it looks up.
CompletesPopping(r) ==
  /\ Ready
  /\ result' = r
  /\ before' = RegistryState
  /\ pdfs' = DictDel(pdfs, Get(r.args, "pdf_id", ""))
  /\ pdf_paths' = DictDel(pdf_paths, Get(r.args, "pdf_id", ""))
  /\ UNCHANGED << variant, suspended, pdf_images, docs, pc, closedIds,
                  returnedIds >>

\* A handler that only reads the registry, run to completion.
Completes(r) ==
  /\ Ready
  /\ result' = r
  /\ before' = RegistryState
  /\ UNCHANGED << variant, suspended, pdfs, pdf_paths, pdf_images, docs, pc,
                  closedIds, returnedIds >>

\* OpenPdfStep with send_resource_list_changed() called before the stores.
OpenPdfStepSendsFirst(args) ==
  LET op == "open-pdf"
      path == AbsPath(ExpandUser(Get(args, "path", "")))
      kind == FileKind(path)
      pdf_id == PdfId(path)
      h == Len(docs) + 1
      fails(msg) ==
        /\ result' = Raise(op, args, msg)
        /\ UNCHANGED << variant, suspended, pdfs, pdf_paths, pdf_images,
                        docs, pc, closedIds, returnedIds >>
  IN /\ Ready
     /\ before' = RegistryState
     /\ IF DOMAIN args = {} THEN fails("Missing arguments")
        ELSE IF Get(args, "path", "") = "" THEN fails("Missing path")
        ELSE IF kind = "missing" THEN fails("File not found: " \o path)
        ELSE IF kind = "directory" THEN fails("Path is not a file: " \o path)
        ELSE IF kind = "unreadable"
             THEN fails("File is not readable: " \o path)
        ELSE IF kind = "garbage"
             THEN fails("Failed to open PDF: cannot open document")
        ELSE /\ Len(docs) < MaxHandles
             /\ docs' = Append(docs, [path |-> path, closed |-> FALSE])
             /\ pdfs' = DictSet(pdfs, pdf_id, h)
             /\ pdf_paths' = DictSet(pdf_paths, pdf_id, path)
             /\ pdf_images' = StoreImages(pdf_images, pdf_id)
             /\ closedIds' = closedIds \ { pdf_id }
             /\ pc' = [at |-> "await", op |-> op, args |-> args,
                       pdf_id |-> pdf_id, path |-> path, h |-> h,
                       listed |-> ResourceUris]
             /\ UNCHANGED << variant, suspended, result, returnedIds >>

\* open-pdf up to its await: the checks, fitz.open, the three stores, and
\* the call of send_resource_list_changed(); pc.listed is the resource list
\* a client gets that fetches it on receipt of that notification.
OpenPdfStep(args) ==
  LET op == "open-pdf"
      path == AbsPath(ExpandUser(Get(args, "path", "")))
      kind == FileKind(path)
      pdf_id == PdfId(path)
      h == Len(docs) + 1
      fails(msg) ==
        /\ result' = Raise(op, args, msg)
        /\ UNCHANGED << variant, suspended, pdfs, pdf_paths, pdf_images,
                        docs, pc, closedIds, returnedIds >>
  IN /\ Ready
     /\ before' = RegistryState
     /\ IF DOMAIN args = {} THEN fails("Missing arguments")
        ELSE IF Get(args, "path", "") = "" THEN fails("Missing path")
        ELSE IF kind = "missing" THEN fails("File not found: " \o path)
        ELSE IF kind = "directory" THEN fails("Path is not a file: " \o path)
        ELSE IF kind = "unreadable"
             THEN fails("File is not readable: " \o path)
        ELSE IF kind = "garbage"
             THEN fails("Failed to open PDF: cannot open document")
        ELSE /\ Len(docs) < MaxHandles
             /\ docs' = Append(docs, [path |-> path, closed |-> FALSE])
             /\ pdfs' = DictSet(pdfs, pdf_id, h)
             /\ pdf_paths' = DictSet(pdf_paths, pdf_id, path)
             /\ pdf_images' = StoreImages(pdf_images, pdf_id)
             /\ closedIds' = closedIds \ { pdf_id }
             /\ pc' = [at |-> "await", op |-> op, args |-> args,
                       pdf_id |-> pdf_id, path |-> path, h |-> h,
                       listed |-> ResourceUris']
             /\ UNCHANGED << variant, suspended, result, returnedIds >>

OpenPdf == \E args \in OpenArgs : OpenPdfStep(args)

\* ClosePdfStep without "del pdf_paths[pdf_id]".
ClosePdfStepKeepsPath(args) ==
  LET op == "close-pdf"
      pdf_id == args.pdf_id
      h == pdfs[pdf_id]
      fails(msg) ==
        /\ result' = Raise(op, args, msg)
        /\ UNCHANGED << variant, suspended, pdfs, pdf_paths, pdf_images,
                        docs, pc, closedIds, returnedIds >>
  IN /\ Ready
     /\ before' = RegistryState
     /\ IF DOMAIN args = {} THEN fails("Missing arguments")
        ELSE IF InvalidPdfId(args) THEN fails("Invalid PDF ID")
        ELSE /\ docs' = IF variant = "pymupdf"
                        THEN [docs EXCEPT ![h].closed = TRUE]
                        ELSE docs
             /\ pdfs' = DictDel(pdfs, pdf_id)
             /\ pdf_paths' = pdf_paths
             /\ pdf_images' = DictDel(pdf_images, pdf_id)
             /\ returnedIds' = returnedIds \ { pdf_id }
             /\ pc' = [at |-> "await", op |-> op, args |-> args,
                       pdf_id |-> pdf_id, path |-> pdf_paths[pdf_id],
                       h |-> h, listed |-> ResourceUris']
             /\ UNCHANGED << variant, suspended, result, closedIds >>

\* close-pdf up to its await: the lookup, doc.close() and the deletions.
ClosePdfStep(args) ==
  LET op == "close-pdf"
      pdf_id == args.pdf_id
      h == pdfs[pdf_id]
      fails(msg) ==
        /\ result' = Raise(op, args, msg)
        /\ UNCHANGED << variant, suspended, pdfs, pdf_paths, pdf_images,
                        docs, pc, closedIds, returnedIds >>
  IN /\ Ready
     /\ before' = RegistryState
     /\ IF DOMAIN args = {} THEN fails("Missing arguments")
        ELSE IF InvalidPdfId(args) THEN fails("Invalid PDF ID")
        ELSE /\ docs' = IF variant = "pymupdf"
                        THEN [docs EXCEPT ![h].closed = TRUE]
                        ELSE docs
             /\ pdfs' = DictDel(pdfs, pdf_id)
             /\ pdf_paths' = DictDel(pdf_paths, pdf_id)
             /\ pdf_images' = DictDel(pdf_images, pdf_id)
             /\ returnedIds' = returnedIds \ { pdf_id }
             /\ pc' = [at |-> "await", op |-> op, args |-> args,
                       pdf_id |-> pdf_id, path |-> pdf_paths[pdf_id],
                       h |-> h, listed |-> ResourceUris']
             /\ UNCHANGED << variant, suspended, result, closedIds >>

ClosePdf == \E args \in IdArgs : ClosePdfStep(args)

\* What the handler suspended at its await does once
\* send_resource_list_changed() has returned (sent) or raised.
AfterSend(sent) ==
  LET notifs == IF sent THEN << pc.listed >> ELSE << >>
  IN IF pc.op = "open-pdf"
     THEN IF sent /\ docs[pc.h].closed
          THEN Raise(pc.op, pc.args, "Failed to open PDF: document closed")
          ELSE IF sent
          THEN [Return(pc.op, pc.args,
                       "Opened PDF '" \o Basename(pc.path) \o "' with "
                         \o ToString(PageCount(docs[pc.h].path))
                         \o " pages. PDF ID: " \o pc.pdf_id,
                       << >>, << >>) EXCEPT !.notifs = notifs]
          ELSE Raise(pc.op, pc.args, "Failed to open PDF: stream closed")
     ELSE IF sent
          THEN [Return(pc.op, pc.args,
                       "Closed PDF '" \o Basename(pc.path) \o "'",
                       << >>, << >>) EXCEPT !.notifs = notifs]
          ELSE Outcome(pc.op, pc.args, FALSE, "ClosedResourceError",
                       "stream closed", << >>, << >>, << >>)

\* await server.request_context.session.send_resource_list_changed(): the
\* transport delivers the notification or the send raises.
SendResourceListChanged ==
  /\ pc.at = "await"
  /\ \E sent \in BOOLEAN :
       /\ result' = AfterSend(sent)
       /\ closedIds' = IF sent /\ pc.op = "close-pdf"
                       THEN closedIds \cup { pc.pdf_id }
                       ELSE closedIds
       /\ returnedIds' = IF sent /\ pc.op = "open-pdf"
                         THEN returnedIds \cup { pc.pdf_id }
                         ELSE returnedIds
  /\ pc' = Idle
  /\ UNCHANGED << variant, suspended, pdfs, pdf_paths, pdf_images, docs,
                  before >>

GetPdfPageCount ==
  \E args \in IdArgs : Completes(CallToolResult("get-pdf-page-count", args))

ListPdfMetadata ==
  \E args \in IdArgs : Completes(CallToolResult("list-pdf-metadata", args))

GetPdfPageText ==
  \E args \in PageArgs : Completes(CallToolResult("get-pdf-page-text", args))

PdfToText ==
  \E args \in TextArgs : Completes(CallToolResult("pdf-to-text", args))

ExtractImages ==
  \E args \in PageArgs : Completes(CallToolResult("extract-images", args))

UnknownTool ==
  \E args \in IdArgs : Completes(CallToolResult("rotate-pdf", args))

SummarizePdf ==
  \E args \in SummarizeArgs : Completes(GetPromptResult("summarize-pdf", args))

ExtractTextFromPdf ==
  \E args \in ExtractArgs :
    Completes(GetPromptResult("extract-text-from-pdf", args))

AnalyzePdf ==
  \E args \in AnalyzeArgs : Completes(GetPromptResult("analyze-pdf", args))

UnknownPrompt ==
  \E args \in IdArgs : Completes(GetPromptResult("translate-pdf", args))

ReadResource == \E uri \in UriInputs : Completes(ReadResourceResult(uri))

ListResourcesCall ==
  Completes([Return("list-resources", EmptyDict, "", << >>, << >>)
               EXCEPT !.listing = ListResources])

\* The framework sends the handler's return value or exception back to the
\* caller.
Respond ==
  /\ result # NoResult
  /\ result' = NoResult
  /\ before' = NoRegistry
  /\ UNCHANGED << variant, suspended, pdfs, pdf_paths, pdf_images, docs, pc,
                  closedIds, returnedIds >>

\* The handler in pc stays suspended at its await and the event loop turns
\* to the next request: the server runs each request in a task of its own.
YieldAtAwait ==
  /\ pc.at = "await"
  /\ Len(suspended) < MaxSuspended
  /\ suspended' = Append(suspended, pc)
  /\ pc' = Idle
  /\ UNCHANGED << variant, pdfs, pdf_paths, pdf_images, docs, result,
                  closedIds, returnedIds, before >>

\* The event loop turns back to a handler parked at its await.
ResumeAtAwait ==
  /\ Ready
  /\ \E k \in 1..Len(suspended) :
       /\ pc' = suspended[k]
       /\ suspended' = SubSeq(suspended, 1, k - 1)
                         \o SubSeq(suspended, k + 1, Len(suspended))
  /\ UNCHANGED << variant, pdfs, pdf_paths, pdf_images, docs, result,
                  closedIds, returnedIds, before >>

Next ==
  \/ OpenPdf
  \/ ClosePdf
  \/ SendResourceListChanged
  \/ GetPdfPageCount
  \/ ListPdfMetadata
  \/ GetPdfPageText
  \/ PdfToText
  \/ ExtractImages
  \/ UnknownTool
  \/ SummarizePdf
  \/ ExtractTextFromPdf
  \/ AnalyzePdf
  \/ UnknownPrompt
  \/ ReadResource
  \/ ListResourcesCall
  \/ Respond

Spec == Init /\ [][Next]_vars

\* The handlers with requests served concurrently: a handler suspended at its
\* await may stay there while the handlers of other requests run.  Only
\* open-pdf and close-pdf have an await and write the registry; of the
\* handlers that run from start to end without suspending, the lookups of
\* the session, path and resource tables stand for all.
ConcurrentNext ==
  \/ OpenPdf
  \/ ClosePdf
  \/ SendResourceListChanged
  \/ YieldAtAwait
  \/ ResumeAtAwait
  \/ GetPdfPageCount
  \/ ReadResource
  \/ ListResourcesCall
  \/ Respond

ConcurrentSpec == Init /\ [][ConcurrentNext]_vars

(* ------------------------------ properties ---------------------------- *)

\* The session id a call was given; a resource read names one by a pdf:// URI.
CallId(r) ==
  IF r.op = "read-resource"
  THEN IF r.args.scheme = "pdf" THEN r.args.host ELSE ""
  ELSE Get(r.args, "pdf_id", "")

\* The tools of the running variant that take a session id.
SessionTools ==
  { "close-pdf", "get-pdf-page-count", "get-pdf-page-text", "pdf-to-text" }
    \cup (IF variant = "pymupdf" THEN { "extract-images" }
          ELSE { "list-pdf-metadata" })

PromptNames == { "summarize-pdf", "extract-text-from-pdf", "analyze-pdf" }

\* The last call was given the id of a session closed before it.
CalledOnClosedId ==
  /\ result.op \in SessionTools \cup PromptNames \cup { "read-resource" }
  /\ ~(result.op = "close-pdf" /\ result.ok)
  /\ CallId(result) \in closedIds

\* s contains sub
Contains(s, sub) ==
  \E i \in 1..(Len(s) - Len(sub) + 1) : SubSeq(s, i, i + Len(sub) - 1) = sub

\* The last call was given the id of an open session.
CalledOnOpenId == ~InvalidPdfId(result.args)

\* Page count of the session the last call was given.
CalledPages == DocPages(pdfs[result.args.pdf_id])

SameResult(a, b) ==
  a.ok = b.ok /\ a.exc = b.exc /\ a.text = b.text /\ a.pages = b.pages

C2_Original ==
  (result.op = "open-pdf" /\ ~result.ok) =>
    (pdfs = before[1] /\ pdf_paths = before[2])

\* C3: the path and the document handle stored under an id that a successful
\* open returned stay the same in every step until close is called on the id.
C3_Original ==
  [][\A id \in returnedIds \cap returnedIds' :
       pdfs'[id] = pdfs[id] /\ pdf_paths'[id] = pdf_paths[id]]_vars

\* C4: every operation other than open and close, whether it succeeds or
\* fails, leaves the sessions, their paths, their image tables and their
\* documents as they were before the call.
C4_ReadOnlyCallsKeepRegistry ==
  result.op \notin { "none", "open-pdf", "close-pdf" } =>
    RegistryState = before

C4_Witness ==
  /\ result.op = "extract-text-from-pdf"
  /\ result.ok
  /\ Cardinality(DOMAIN pdfs) = 2

\* C5: a successful open or close sends exactly one resource-list-changed
\* notification, and the resource list current at that send already holds the
\* opened session, or no longer holds the closed one; no other operation sends
\* a notification.
C5_OneNotificationAfterUpdate ==
  /\ (result.op = "open-pdf" /\ result.ok) =>
       /\ Len(result.notifs) = 1
       /\ ("pdf://" \o PdfId(AbsPath(ExpandUser(result.args.path))))
            \in result.notifs[1]
  /\ (result.op = "close-pdf" /\ result.ok) =>
       /\ Len(result.notifs) = 1
       /\ ("pdf://" \o result.args.pdf_id) \notin result.notifs[1]
  /\ result.op \notin { "open-pdf", "close-pdf" } => Len(result.notifs) = 0

C5_Witness ==
  /\ result.op = "open-pdf"
  /\ result.ok
  /\ Len(result.notifs) = 1
  /\ Cardinality(result.notifs[1]) = 2

\* C6: on an open N-page document, page_text and extract_images with page
\* index i succeed exactly when 0 <= i < N, and otherwise fail with a
\* ValueError whose message names the range 0..N-1.
C6_Original ==
  ( /\ result.op \in { "get-pdf-page-text" }
         \cup (IF variant = "pymupdf" THEN { "extract-images" } ELSE {})
    /\ CalledOnOpenId
    /\ "page_number" \in DOMAIN result.args ) =>
    /\ result.ok <=> ( /\ 0 <= result.args.page_number
                       /\ result.args.page_number < CalledPages )
    /\ ~result.ok =>
         /\ result.exc = "ValueError"
         /\ Contains(result.text, "0-" \o ToString(CalledPages - 1))

\* The nearest value to i in [0, n-1].
Nearest(i, n) == Max(0, Min(n - 1, i))

\* C7: on an open N-page document (N >= 1), full_text never fails, and the
\* pages it extracts are those from clamp(start) to clamp(end), the bounds
\* swapped first if inverted and clamp mapping a bound to the nearest value
\* in [0, N-1].
C7_Original ==
  (result.op = "pdf-to-text" /\ CalledOnOpenId /\ CalledPages >= 1) =>
    LET s == Get(result.args, "start_page", 0)
        e == Get(result.args, "end_page", CalledPages - 1)
    IN /\ result.ok
       /\ result.pages = RangeSeq(Nearest(Min(s, e), CalledPages),
                                  Nearest(Max(s, e), CalledPages))

\* C8: on an N-page document (N >= 1), full_text with a start below 0 and an
\* end at or above N returns the same result, page-range description
\* included, as full_text(start=0, end=N-1).
C8_ClampingLaw ==
  ( /\ result.op = "pdf-to-text"
    /\ CalledOnOpenId
    /\ CalledPages >= 1
    /\ { "start_page", "end_page" } \subseteq DOMAIN result.args
    /\ result.args.start_page < 0
    /\ result.args.end_page >= CalledPages ) =>
    SameResult(result,
               PdfToTextResult(
                 DictSet(DictSet(result.args, "start_page", 0),
                         "end_page", CalledPages - 1)))

C8_Witness ==
  /\ result.op = "pdf-to-text"
  /\ result.ok
  /\ CalledOnOpenId
  /\ CalledPages = MaxPages
  /\ { "start_page", "end_page" } \subseteq DOMAIN result.args
  /\ result.args.start_page < 0
  /\ result.args.end_page > CalledPages

\* C9: for page indices a <= b in [0, N), full_text(start=b, end=a) returns
\* the same result as full_text(start=a, end=b).
C9_SwapLaw ==
  ( /\ result.op = "pdf-to-text"
    /\ CalledOnOpenId
    /\ { "start_page", "end_page" } \subseteq DOMAIN result.args
    /\ 0 <= result.args.end_page
    /\ result.args.end_page <= result.args.start_page
    /\ result.args.start_page < CalledPages ) =>
    SameResult(result,
               PdfToTextResult(
                 DictSet(DictSet(result.args, "start_page",
                                 result.args.end_page),
                         "end_page", result.args.start_page)))

C9_Witness ==
  /\ result.op = "pdf-to-text"
  /\ result.ok
  /\ CalledOnOpenId
  /\ { "start_page", "end_page" } \subseteq DOMAIN result.args
  /\ result.args.end_page = 0
  /\ result.args.start_page = CalledPages - 1
  /\ result.args.start_page > result.args.end_page
  /\ Len(result.pages) = CalledPages

\* C10: in every operation that reads pages, on every open document of page
\* count N >= 0, each page index passed to the PDF library lies in [0, N).
C10_Original ==
  ( /\ result.op \in { "get-pdf-page-text", "pdf-to-text", "extract-images" }
         \cup PromptNames
    /\ CalledOnOpenId ) =>
    \A k \in 1..Len(result.pages) :
      0 <= result.pages[k] /\ result.pages[k] < CalledPages

\* Document handle of the session the last call was given.
CalledDoc == pdfs[result.args.pdf_id]

\* The text of the last result has the marker of page i of an n-page document.
HasMarker(i, n) == Contains(result.text, PageMarker(i, n))

\* C11: the extract prompt with a page range (numeric bounds, the defaults 0
\* and N-1 for an omitted one) fails with a ValueError if start < 0, or
\* end >= N, or start > end, and otherwise succeeds, reads exactly the pages
\* start..end in increasing order and formats those of them that have text,
\* without clamping or swapping; with a single page argument it fails unless
\* 0 <= page < N and otherwise reads and formats that page only.
C11_ExtractValidatesRange ==
  (result.op = "extract-text-from-pdf" /\ CalledOnOpenId) =>
    LET n == CalledPages
        a == result.args
        ss == Get(a, "start_page", "0")
        es == Get(a, "end_page", ToString(n - 1))
    IN IF "page" \in DOMAIN a
       THEN CanParseInt(a.page) =>
              LET p == ParseInt(a.page)
              IN /\ result.ok <=> (0 <= p /\ p < n)
                 /\ ~result.ok => result.exc = "ValueError"
                 /\ result.ok =>
                      /\ result.pages # << >>
                      /\ \A k \in 1..Len(result.pages) : result.pages[k] = p
                      /\ Contains(result.desc,
                                  "page " \o ToString(p + 1) \o " of")
                      /\ TextOf(CalledDoc, p) # "" =>
                           Contains(result.text, Tidy(TextOf(CalledDoc, p)))
       ELSE (CanParseInt(ss) /\ CanParseInt(es)) =>
              LET s == ParseInt(ss)
                  e == ParseInt(es)
              IN /\ result.ok <=> ~(s < 0 \/ e >= n \/ s > e)
                 /\ ~result.ok => result.exc = "ValueError"
                 /\ result.ok =>
                      /\ result.pages = RangeSeq(s, e)
                      /\ \A i \in 0..(n - 1) :
                           HasMarker(i, n) <=>
                             (s <= i /\ i <= e /\ TextOf(CalledDoc, i) # "")

C11_Witness ==
  /\ result.op = "extract-text-from-pdf"
  /\ result.ok
  /\ CalledOnOpenId
  /\ { "start_page", "end_page" } \subseteq DOMAIN result.args
  /\ "page" \notin DOMAIN result.args
  /\ ParseInt(result.args.start_page) = 1
  /\ ParseInt(result.args.end_page) = CalledPages - 1
  /\ Len(result.pages) >= 2

\* The last call is an analyze prompt with a question, on an open session.
AnalyzeCalled ==
  /\ result.op = "analyze-pdf"
  /\ CalledOnOpenId
  /\ Get(result.args, "question", "") # ""

\* The last result read exactly the pages a..b of the n-page document and
\* embeds the marker of each of them that has text, and of no other page.
EmbedsExactly(a, b, n) ==
  /\ result.ok
  /\ result.pages = RangeSeq(a, b)
  /\ \A i \in 0..(n - 1) :
       HasMarker(i, n) <=> (a <= i /\ i <= b /\ TextOf(CalledDoc, i) # "")

\* C12: in both variants the analyze prompt with pageRange "a-b"
\* (0 <= a <= b < N) embeds the text of exactly the pages a..b, with a single
\* page number string p (0 <= p < N) embeds exactly page p, and with no
\* pageRange embeds every page of the document.
C12_Original ==
  AnalyzeCalled =>
    LET n == CalledPages
        page_range == Get(result.args, "page_range", "")
    IN /\ page_range = "" => EmbedsExactly(0, n - 1, n)
       /\ \A a, b \in 0..(n - 1) :
            (a <= b /\ page_range = ToString(a) \o "-" \o ToString(b)) =>
              EmbedsExactly(a, b, n)
       /\ \A p \in 0..(n - 1) :
            page_range = ToString(p) => EmbedsExactly(p, p, n)

\* A pageRange string that is a page number, or "a-b" with numbers a <= b.
WellFormedPageRange(page_range) ==
  LET parts == Split(page_range, "-")
  IN \/ CanParseInt(page_range)
     \/ /\ Len(parts) = 2
        /\ CanParseInt(parts[1])
        /\ CanParseInt(parts[2])
        /\ ParseInt(parts[1]) <= ParseInt(parts[2])

\* C13: a malformed page-range argument (non-numeric, or parsed start greater
\* than parsed end) makes the operation fail with a ValueError: the analyze
\* prompt given such a pageRange, and the extract prompt given such start and
\* end bounds; in particular analyze with "b-a", b > a, fails.
C13_Original ==
  /\ ( /\ AnalyzeCalled
       /\ Get(result.args, "page_range", "") # ""
       /\ ~WellFormedPageRange(result.args.page_range) ) =>
       (~result.ok /\ result.exc = "ValueError")
  /\ ( /\ result.op = "extract-text-from-pdf"
       /\ CalledOnOpenId
       /\ "page" \notin DOMAIN result.args
       /\ LET ss == Get(result.args, "start_page", "0")
              es == Get(result.args, "end_page", ToString(CalledPages - 1))
          IN \/ ~CanParseInt(ss)
             \/ ~CanParseInt(es)
             \/ ParseInt(ss) > ParseInt(es) ) =>
       (~result.ok /\ result.exc = "ValueError")

\* The last call is extract-images with a page index of the open document.
ExtractImagesCalled ==
  /\ result.op = "extract-images"
  /\ variant = "pymupdf"
  /\ CalledOnOpenId
  /\ "page_number" \in DOMAIN result.args
  /\ 0 <= result.args.page_number
  /\ result.args.page_number < CalledPages

\* The embedded images of the page the last call named.
CalledImages == PageImages(docs[CalledDoc].path, result.args.page_number)

\* Decoding, conversion (for a pixmap with four or more colour channels) and
\* saving of an image all work.
ImageWorks(img) ==
  img.decodes /\ (img.n - img.alpha >= 4 => img.converts) /\ img.saves

\* C14: image extraction for a page succeeds and returns the paths of exactly
\* the embedded images whose decode, conversion and save worked, in the
\* page's image reference order; an image that fails is skipped and the
\* images after it are still extracted.
C14_FailedImagesAreSkipped ==
  ExtractImagesCalled =>
    LET good == { k \in 1..Len(CalledImages) : ImageWorks(CalledImages[k]) }
    IN /\ result.ok
       /\ Len(result.images) = Cardinality(good)
       /\ \A k \in good :
            result.images[Cardinality({ j \in good : j <= k })]
              = ImagePath(result.args.pdf_id, result.args.page_number, k - 1)

C14_Witness ==
  /\ ExtractImagesCalled
  /\ result.ok
  /\ Len(result.images) >= 2
  /\ \E j, k \in 1..Len(CalledImages) :
       j < k /\ ~ImageWorks(CalledImages[j]) /\ ImageWorks(CalledImages[k])

\* C15: extract_images on a valid page with no embedded image succeeds with an
\* empty image list and the message "No images found on page <p>", writes no
\* file and makes no temporary directory.
C15_NoImagesIsNotAnError ==
  (ExtractImagesCalled /\ CalledImages = << >>) =>
    /\ result.ok
    /\ result.images = << >>
    /\ result.mkdirs = << >>
    /\ result.text
         = "No images found on page " \o ToString(result.args.page_number)

C15_Witness ==
  /\ ExtractImagesCalled
  /\ CalledImages = << >>
  /\ result.ok
  /\ CalledPages = MaxPages

\* The failure kinds of open, read off the message of the ValueError.
IsNotFound(r) == ~r.ok /\ StartsWith(r.text, "File not found: ")

IsPermissionDenied(r) ==
  /\ ~r.ok
  /\ \/ StartsWith(r.text, "Path is not a file: ")
     \/ StartsWith(r.text, "File is not readable: ")

IsParseFailure(r) == ~r.ok /\ StartsWith(r.text, "Failed to open PDF: ")

\* C16: open classifies its failures in a fixed order: a path that does not
\* exist fails with NotFound, an existing path that is a directory or is
\* unreadable fails with PermissionDenied, and a ParseFailure is reported for
\* an existing readable regular file that the PDF library cannot open and for
\* nothing else; no document is obtained from the library for a path that
\* failed an earlier check.
C16_Original ==
  (result.op = "open-pdf" /\ Get(result.args, "path", "") # "") =>
    LET kind == FileKind(AbsPath(ExpandUser(result.args.path)))
    IN /\ kind = "missing" => IsNotFound(result)
       /\ kind \in { "directory", "unreadable" } => IsPermissionDenied(result)
       /\ kind = "garbage" => IsParseFailure(result)
       /\ IsParseFailure(result) => kind = "garbage"
       /\ kind \in { "missing", "directory", "unreadable" } =>
            docs = before[4]

\* C17: after any sequence of opens and closes, resources.list returns one
\* resource per open session and no other, with URI pdf://<sessionId>, each
\* of which can be read; and resources.read(uri) succeeds exactly when the
\* scheme is pdf and the host is the id of an open session, and fails with a
\* ValueError otherwise.
C17_ResourcesMirrorSessions ==
  /\ result.op = "list-resources" =>
       /\ result.ok
       /\ { r.uri : r \in result.listing }
            = { "pdf://" \o id : id \in DOMAIN pdfs }
       /\ Cardinality(result.listing) = Cardinality(DOMAIN pdfs)
       /\ \A r \in result.listing : ReadResourceResult(AnyUrl(r.uri)).ok
  /\ result.op = "read-resource" =>
       /\ result.ok <=>
            (result.args.scheme = "pdf" /\ result.args.host \in DOMAIN pdfs)
       /\ ~result.ok => result.exc = "ValueError"

C17_Witness ==
  /\ result.op = "list-resources"
  /\ Cardinality(result.listing) = 1
  /\ closedIds # {}
  /\ Len(docs) = MaxHandles

\* The characters Ord tells apart.
AsciiChars == AsciiPunct \o AsciiUpper \o AsciiLower \o "_~"

\* bytes([b]).decode(): the character with byte value b.
Chr(b) ==
  IF \E i \in 1..Len(AsciiChars) : Ord(CharAt(AsciiChars, i)) = b
  THEN CharAt(AsciiChars,
              CHOOSE i \in 1..Len(AsciiChars) : Ord(CharAt(AsciiChars, i)) = b)
  ELSE "?"

RECURSIVE B64Values(_, _)
\* The 6-bit values of the characters of s from position i on; as in
\* base64.b64decode, characters outside the standard alphabet are discarded.
B64Values(s, i) ==
  IF i > Len(s) THEN << >>
  ELSE (IF IndexOf(StandardAlphabet, CharAt(s, i)) > 0
        THEN << IndexOf(StandardAlphabet, CharAt(s, i)) - 1 >>
        ELSE << >>)
       \o B64Values(s, i + 1)

RECURSIVE B64Bytes(_, _)
\* The text of the bytes that the 6-bit values v[i..] encode, four values to
\* three bytes.
B64Bytes(v, i) ==
  LET rest == Len(v) - i + 1
      byte1 == v[i] * 4 + v[i + 1] \div 16
      byte2 == (v[i + 1] % 16) * 16 + v[i + 2] \div 4
      byte3 == (v[i + 2] % 4) * 64 + v[i + 3]
  IN IF rest < 2 THEN ""
     ELSE IF rest = 2 THEN Chr(byte1)
     ELSE IF rest = 3 THEN Chr(byte1) \o Chr(byte2)
     ELSE Chr(byte1) \o Chr(byte2) \o Chr(byte3) \o B64Bytes(v, i + 4)

\* base64.b64decode(text), as a client decodes what resources.read returned
B64Decode(text) == B64Bytes(B64Values(text, 1), 1)

\* C18: for every open session id, the result of resources.read("pdf://<id>"),
\* decoded from base64, equals byte for byte the content of the file at the
\* session's path.
C18_ReadRoundTrip ==
  ( /\ result.op = "read-resource"
    /\ result.args.scheme = "pdf"
    /\ result.args.host \in DOMAIN pdfs ) =>
    /\ result.ok
    /\ B64Decode(result.text) = FileContent(pdf_paths[result.args.host])

C18_Witness ==
  /\ result.op = "read-resource"
  /\ result.ok
  /\ Cardinality(DOMAIN pdfs) = 2
  /\ Len(FileContent(pdf_paths[result.args.host])) % 3 = 1
  /\ B64Decode(result.text) = FileContent(PathA)

\* C19: in both variants, a successful close(id) has closed the document
\* handle that was stored under the id and has removed the id from the
\* session, path and image tables; close on an absent id fails and leaves the
\* registry as it was.
C19_Original ==
  result.op = "close-pdf" =>
    LET id == Get(result.args, "pdf_id", "")
    IN /\ result.ok =>
            /\ docs[before[1][id]].closed
            /\ id \notin DOMAIN pdfs
            /\ id \notin DOMAIN pdf_paths
            /\ id \notin DOMAIN pdf_images
       /\ id \notin DOMAIN before[1] =>
            (~result.ok /\ RegistryState = before)

\* The last call failed with a ValueError whose message has the words field.
FailsNaming(field) ==
  ~result.ok /\ result.exc = "ValueError" /\ Contains(result.text, field)

\* C20: a tool call that omits a required argument, its other arguments being
\* valid, fails with a ValueError whose message names the missing field: the
\* path for open, the PDF ID for every other tool, the page number for
\* page_text and extract_images.
C20_Original ==
  /\ (result.op = "open-pdf" /\ "path" \notin DOMAIN result.args) =>
       FailsNaming("path")
  /\ (result.op \in SessionTools /\ "pdf_id" \notin DOMAIN result.args) =>
       FailsNaming("PDF ID")
  /\ ( /\ result.op \in { "get-pdf-page-text", "extract-images" } \cap SessionTools
       /\ CalledOnOpenId
       /\ "page_number" \notin DOMAIN result.args ) =>
       FailsNaming("page number")

\* Positions of s where sub occurs.
Occurrences(s, sub) ==
  { i \in 1..(Len(s) - Len(sub) + 1) : SubSeq(s, i, i + Len(sub) - 1) = sub }

\* C21: full_text on an open N-page document (N >= 1) never fails; the
\* output has one placeholder for each page of the effective range that has
\* no extractable text, whether include_page_numbers is true or false; and
\* with include_page_numbers true it has exactly one "--- PAGE i/N ---"
\* marker for each page of the range and none for another page, in increasing
\* page order.
C21_Original ==
  (result.op = "pdf-to-text" /\ CalledOnOpenId /\ CalledPages >= 1) =>
    LET n == CalledPages
        inRange == { result.pages[k] : k \in 1..Len(result.pages) }
        marks(i) == Occurrences(result.text, PageMarker(i, n))
    IN /\ result.ok
       /\ Cardinality(Occurrences(result.text, "[No extractable text"))
            = Cardinality({ i \in inRange : TextOf(CalledDoc, i) = "" })
       /\ Get(result.args, "include_page_numbers", TRUE) =>
            /\ \A i \in 0..(n - 1) :
                 Cardinality(marks(i)) = IF i \in inRange THEN 1 ELSE 0
            /\ \A i, j \in inRange :
                 i < j => \A a \in marks(i), b \in marks(j) : a < b

\* C22: the registry's tables always have the same key set, after every call
\* and while handlers are suspended at their await with other handlers
\* running in between: an id is a key of pdfs if and only if it is a key of
\* pdf_paths and, in the image-capable variant, of pdf_images.
C22_TablesShareKeys ==
  /\ DOMAIN pdfs = DOMAIN pdf_paths
  /\ variant = "pymupdf" => DOMAIN pdf_images = DOMAIN pdfs

C22_Witness ==
  /\ Len(suspended) = 1
  /\ suspended[1].op = "open-pdf"
  /\ pc.at = "await"
  /\ pc.op = "close-pdf"
  /\ pc.pdf_id = suspended[1].pdf_id
  /\ DOMAIN pdfs # {}

\* C23: every document obtained from the PDF library and not closed is the
\* one stored in pdfs under some id; in particular an open whose id is already
\* in the registry does not leave the document stored before open and
\* unreachable.
C23_Original ==
  \A h \in 1..Len(docs) :
    ~docs[h].closed => \E id \in DOMAIN pdfs : pdfs[id] = h

====
